---- MODULE Spec2Model ----
(***************************************************************************)
(* A model of degrees.py: the ortholog index (fetch_orthologs), the        *)
(* translation of one DESeq2 file to ortholog rows (translate_to_orthologs)*)
(* the pairwise comparison loop (pairwise_comparisons, sigcounts,          *)
(* concordancecounts), the global comparison (global_dataframe,           *)
(* global_comparisons), the domain enrichment (enrichment) and the script  *)
(* that calls them.                                                        *)
(*                                                                         *)
(* Numbers read from files are held in thousandths, so 0.05 is 50 and a    *)
(* fold change of 1.5 is 1500.  A float that is missing (pandas NaN) is    *)
(* the empty tuple <<>> and a float v is <<v>>; every comparison with a    *)
(* NaN is false, as in numpy.  Python's None is <<>> too, and a value x    *)
(* that may be None is <<x>>.                                              *)
(***************************************************************************)
EXTENDS Integers, Sequences, FiniteSets, TLC

VARIABLES
    \* ---- fetch_orthologs ----
    mustcontain,    \* None or <<set of species>>
    exclude,        \* None or <<set of species>>
    duplicates,     \* the manage_duplicates flag
    ortho_dic,      \* gene -> ortholog group id
    ortho_idx,      \* ortholog group id -> members, every line of the file
    nlines,         \* lines of the orthology file read so far
    lastline,       \* the columns of the line read last
    handle,         \* the lines of the orthology file read so far, split
    ostatus,        \* "reading", "closed", or the exception that ended the call
    \* ---- translate_to_orthologs ----
    calibrate,      \* None or <<ortholog group id>>
    degdic,         \* ortholog group id -> (padj, logfc, basemean)
    contrib,        \* ortholog group id -> number of rows that wrote its entry
    nrows,          \* lines of the experiment file read so far
    lastrow,        \* the columns of the line read last
    df,             \* the data frame returned, None before the return
    tduplicates,    \* the duplicates argument of translate_to_orthologs
    ncal,           \* calibrations applied to the returned frame by a caller
    lastcal,        \* the calibration group applied last, None if none was
    tstatus,        \* "reading", "returned", or the exception that ended the call
    \* ---- pairwise_comparisons and global_comparisons ----
    experiments,    \* the list of experiment file names
    files,          \* file name -> the frame translate_to_orthologs(name, orthodic) gives
    drop_nas,       \* not --keep_nas
    pairno,         \* position in itertools.product(experiments, experiments)
    last,           \* the locals of the pass of the loop made last, None before it
    concordant_sig_genesets,
    jaccard_array,  \* <<column label, row label>> -> None or the cell's value
    common_to_all,  \* None before the return
    pstatus,        \* "looping", "returned", or the exception that ended the call
    dfall,          \* the wide frame of global_dataframe, None before line 116
    njoined,        \* experiments in dfall
    orthologs,      \* what global_comparisons returns, None before the return
    gstatus,        \* "joining", "returned", or the exception that ended the call
    \* ---- enrichment ----
    edf3,           \* the index of the df3 argument: the background's groups
    pfam_idx,       \* pfam accession -> list of the genes annotated with it
    pfam_acc,       \* gene -> list of its pfam accessions
    npfam,          \* lines of the annotation file read so far
    common_pfams,   \* the pfams collected from the target groups
    deg_pfam_counter,
    fs,             \* pfam -> its Fisher_square (the four cells, p once tested)
    fdr,            \* what p_to_q returned: p-value -> q-value
    reported,       \* pfam -> the message verbalised for it
    estatus,        \* "idle", then the step of enrichment reached
    \* ---- the script, lines 945-1066 ----
    args,           \* the parsed command line
    isfile,         \* the experiment files that exist
    orthofile,      \* the lines of the orthology file, split
    opened,         \* the input files opened for reading so far, in order
    mpc             \* the step of the script reached, or how it ended

ovars == <<mustcontain, exclude, duplicates, ortho_dic, ortho_idx, nlines,
           lastline, handle, ostatus>>
tvars == <<calibrate, tduplicates, degdic, contrib, nrows, lastrow, df, ncal, lastcal,
           tstatus>>
pvars == <<experiments, files, drop_nas, pairno, last, concordant_sig_genesets,
           jaccard_array, common_to_all, pstatus>>
gvars == <<dfall, njoined, orthologs, gstatus>>
evars == <<edf3, pfam_idx, pfam_acc, npfam, common_pfams, deg_pfam_counter, fs, fdr,
           reported, estatus>>
mvars == <<args, isfile, orthofile, opened, mpc>>
vars == <<ovars, tvars, pvars, gvars, evars, mvars>>

----------------------------------------------------------------------------
(* Bounds of the model *)
MaxLines == 2       \* lines in the orthology file
MaxMembers == 2     \* member genes on one line of the orthology file
MaxRows == 2        \* lines in one experiment file
MaxCal == 2         \* calibrations of one returned frame
MaxExp == 3         \* experiment files on the command line
MaxGroups == 3      \* ortholog groups in the translated frames
MaxCells == 6       \* experiments times ortholog groups
MaxPfamLines == 3   \* lines in the domain annotation file
MaxArgs == 2        \* experiment files named on a command line of the script

----------------------------------------------------------------------------
(* Python values *)
None == <<>>
Some(x) == <<x>>
Truthy(o) == o # None /\ o[1] # {}

\* d[k] = v on a dict
DictSet(d, k, v) == [x \in (DOMAIN d) \cup {k} |-> IF x = k THEN v ELSE d[x]]
\* d.update(e)
DictUpdate(d, e) ==
    [x \in (DOMAIN d) \cup (DOMAIN e) |-> IF x \in DOMAIN e THEN e[x] ELSE d[x]]
EmptyDict == [x \in {} |-> 0]

SeqsUpTo(S, n) == UNION {[1..k -> S] : k \in 0..n}
Range(s) == {s[i] : i \in DOMAIN s}

----------------------------------------------------------------------------
(* The orthology file *)
Genes == {"AAAA|1", "AAAA|2", "AAAA|3", "BBBB|1"}
GroupIds == {"G1", "G2"}

\* g.split('|'): the pieces of a token around the pipe characters
SplitPipe(g) ==
    CASE g = "AAAA|1" -> <<"AAAA", "1">>
      [] g = "AAAA|2" -> <<"AAAA", "2">>
      [] g = "AAAA|3" -> <<"AAAA", "3">>
      [] g = "BBBB|1" -> <<"BBBB", "1">>
      [] OTHER -> <<g>>

\* A line after line.split(): no column, or a group id and its members
OrthoLines == {<<>>} \cup
    {<<id>> \o m : id \in GroupIds, m \in SeqsUpTo(Genes, MaxMembers)}

\* The loop "for g in cols" over the Counter, lines 155-163.  The result is
\* None when "spec in exclude" is evaluated with exclude None (a TypeError).
RECURSIVE CountSpecies(_, _, _, _, _)
CountSpecies(cols, i, counts, excl, dups) ==
    IF i > Len(cols) THEN Some(counts)
    ELSE LET spec == SplitPipe(cols[i])[1]
             old == IF spec \in DOMAIN counts THEN counts[spec] ELSE 0
         IN  IF dups
             THEN CountSpecies(cols, i + 1, DictSet(counts, spec, 1), excl, dups)
             ELSE IF excl = None THEN None
             ELSE IF spec \in excl[1]
             THEN CountSpecies(cols, i + 1, DictSet(counts, spec, 1), excl, dups)
             ELSE CountSpecies(cols, i + 1, DictSet(counts, spec, old + 1), excl, dups)

\* lines 164-167
Whitelist(must, counts) == IF Truthy(must) THEN must[1] ELSE DOMAIN counts

\* the test of lines 171-173
Accepted(must, counts) ==
    /\ \A s \in DOMAIN counts : counts[s] <= 1
    /\ \A wl \in Whitelist(must, counts) : wl \in DOMAIN counts

\* { g:cols[0] for g in cols }, line 175
LineDict(cols) == [g \in Range(cols) |-> cols[1]]

\* translate_to_orthologs has not been called
TranslateIdle ==
    /\ degdic = EmptyDict
    /\ contrib = EmptyDict
    /\ nrows = 0
    /\ lastrow = <<>>
    /\ df = None
    /\ ncal = 0
    /\ lastcal = None
    /\ tduplicates = FALSE
    /\ tstatus = "idle"

\* pairwise_comparisons has not been called
PairwiseIdle ==
    /\ experiments = <<>>
    /\ files = EmptyDict
    /\ drop_nas = TRUE
    /\ pairno = 0
    /\ last = None
    /\ concordant_sig_genesets = <<>>
    /\ jaccard_array = EmptyDict
    /\ common_to_all = None
    /\ pstatus = "idle"

\* global_dataframe has not been called
GlobalIdle ==
    /\ dfall = None
    /\ njoined = 0
    /\ orthologs = None
    /\ gstatus = "idle"

\* the functions are called outside a run of the script
MainIdle ==
    /\ args = None
    /\ isfile = {}
    /\ orthofile = <<>>
    /\ opened = <<>>
    /\ mpc = "idle"

\* the steps of one function alone
OrthoOnly == UNCHANGED <<tvars, pvars, gvars, evars, mvars>>
TranslateOnly == UNCHANGED <<ovars, pvars, gvars, evars, mvars>>
PairwiseOnly == UNCHANGED <<ovars, tvars, gvars, evars, mvars>>
GlobalOnly == UNCHANGED <<ovars, tvars, pvars, evars, mvars>>
EnrichOnly == UNCHANGED <<ovars, tvars, pvars, gvars, mvars>>

\* enrichment has not been called
EnrichIdle ==
    /\ edf3 = {}
    /\ pfam_idx = EmptyDict
    /\ pfam_acc = EmptyDict
    /\ npfam = 0
    /\ common_pfams = {}
    /\ deg_pfam_counter = EmptyDict
    /\ fs = EmptyDict
    /\ fdr = EmptyDict
    /\ reported = EmptyDict
    /\ estatus = "idle"

OrthoInit ==
    /\ MainIdle
    /\ TranslateIdle
    /\ PairwiseIdle
    /\ GlobalIdle
    /\ EnrichIdle
    /\ calibrate = None
    /\ mustcontain \in {None, Some({"AAAA", "BBBB"}), Some({"AAAA"})}
    /\ exclude \in {None, Some({}), Some({"AAAA"})}
    /\ duplicates \in BOOLEAN
    /\ ortho_dic = EmptyDict
    /\ ortho_idx = EmptyDict
    /\ nlines = 0
    /\ lastline = <<>>
    /\ handle = <<>>
    /\ ostatus = "reading"

\* One pass of "for line in handle" (lines 151-175) on a line without columns
SkipLine ==
    /\ ostatus = "reading"
    /\ nlines < MaxLines
    /\ nlines' = nlines + 1
    /\ lastline' = <<>>
    /\ handle' = Append(handle, <<>>)
    /\ UNCHANGED <<mustcontain, exclude, duplicates, ortho_dic, ortho_idx, ostatus>>

\* One pass of "for line in handle" (lines 151-175) on a line with columns
ReadLine ==
    /\ ostatus = "reading"
    /\ nlines < MaxLines
    /\ \E cols \in OrthoLines \ {<<>>} :
         LET counted == CountSpecies(cols, 1, EmptyDict, exclude, duplicates)
         IN  /\ nlines' = nlines + 1
             /\ lastline' = cols
             /\ handle' = Append(handle, cols)
             /\ ortho_idx' = DictSet(ortho_idx, cols[1], SubSeq(cols, 2, Len(cols)))
             /\ IF counted = None
                THEN /\ ostatus' = "TypeError"
                     /\ UNCHANGED ortho_dic
                ELSE /\ ostatus' = "reading"
                     /\ ortho_dic' = IF Accepted(mustcontain, counted[1])
                                     THEN DictUpdate(ortho_dic, LineDict(cols))
                                     ELSE ortho_dic
    /\ UNCHANGED <<mustcontain, exclude, duplicates>>

\* the end of the file: handle.close() and the return, lines 176-178
CloseOrthoFile ==
    /\ ostatus = "reading"
    /\ ostatus' = "closed"
    /\ UNCHANGED <<mustcontain, exclude, duplicates, ortho_dic, ortho_idx, nlines,
                   lastline, handle>>

OrthoNext ==
    \/ SkipLine /\ OrthoOnly
    \/ ReadLine /\ OrthoOnly
    \/ CloseOrthoFile /\ OrthoOnly

SpecOrtho == OrthoInit /\ [][OrthoNext]_vars

\* fetch_orthologs on a whole file, lines 147-178: the passes of the loop over
\* the lines from line i on, and what the call gives (the dicts with status
\* "closed", or the exception that ended it)
RECURSIVE FetchFrom(_, _, _, _, _, _, _)
FetchFrom(lines, i, dic, idx, must, excl, dups) ==
    IF i > Len(lines)
    THEN [status |-> "closed", ortho_dic |-> dic, ortho_idx |-> idx]
    ELSE IF lines[i] = <<>>
    THEN FetchFrom(lines, i + 1, dic, idx, must, excl, dups)
    ELSE LET cols == lines[i]
             idx2 == DictSet(idx, cols[1], SubSeq(cols, 2, Len(cols)))
             counted == CountSpecies(cols, 1, EmptyDict, excl, dups)
         IN  IF counted = None
             THEN [status |-> "TypeError", ortho_dic |-> dic, ortho_idx |-> idx2]
             ELSE FetchFrom(lines, i + 1,
                            IF Accepted(must, counted[1])
                            THEN DictUpdate(dic, LineDict(cols)) ELSE dic,
                            idx2, must, excl, dups)
fetch_orthologs(lines, must, excl, dups) ==
    FetchFrom(lines, 1, EmptyDict, EmptyDict, must, excl, dups)

----------------------------------------------------------------------------
(* translate_to_orthologs *)

\* float(text): None for a ValueError, else the value in thousandths
ParseFloat(t) ==
    CASE t = "0.01" -> Some(10)
      [] t = "0.05" -> Some(50)
      [] t = "1.5" -> Some(1500)
      [] t = "-2.0" -> Some(-2000)
      [] t = "100" -> Some(100000)
      [] OTHER -> None

RowGenes == {"AAAA|1", "AAAA|2", "AAAA|3", "OTHR|9"}
BmeanText == {"100", "x"}
LogfcText == {"1.5", "-2.0", "NA"}
PvalText == {"NA", "0.01", "0.05", "x"}
PadjText == {"0.01", "NA"}

\* Lines of a DESeq2 file after line.split(): rows of 7 columns (gene,
\* baseMean, log2FoldChange, lfcSE, stat, pvalue, padj), a row that starts with
\* the header word, and the 6-column header.
ExpRows ==
    {<<g, b, l, "0.3", "4.2", p, q>> :
        g \in RowGenes \cup {"baseMean"}, b \in BmeanText, l \in LogfcText,
        p \in PvalText, q \in PadjText}
    \cup {<<"baseMean", "log2FoldChange", "lfcSE", "stat", "pvalue", "padj">>}

\* PadjOf with "<= 0.05" in the place of "< 0.05" on column 5
PadjOf_le(cols) ==
    IF ParseFloat(cols[7]) # None THEN ParseFloat(cols[7])
    ELSE IF cols[6] = "NA" THEN Some(1000)
    ELSE IF ParseFloat(cols[6]) = None THEN None
    ELSE IF ParseFloat(cols[6])[1] <= 50 THEN Some(50)
    ELSE Some(1000)

\* lines 192-200: None when float(cols[5]) raises the ValueError nobody catches
PadjOf(cols) ==
    IF ParseFloat(cols[7]) # None THEN ParseFloat(cols[7])
    ELSE IF cols[6] = "NA" THEN Some(1000)
    ELSE IF ParseFloat(cols[6]) = None THEN None
    ELSE IF ParseFloat(cols[6])[1] < 50 THEN Some(50)
    ELSE Some(1000)

\* lines 201-209: float(text), 0 on a ValueError
FloatOrZero(t) == IF ParseFloat(t) = None THEN 0 ELSE ParseFloat(t)[1]

\* the guards of lines 190-191
KeptRow(cols, orthodic) ==
    Len(cols) = 7 /\ cols[1] # "baseMean" /\ cols[1] \in DOMAIN orthodic

\* Calibrate negating the calibration group's row alone
Calibrate_row(frame, c) ==
    IF c # None /\ frame[c[1]].logfc < 0
    THEN [frame EXCEPT ![c[1]].logfc = -1 * @]
    ELSE frame

\* lines 218-219 and 575-578: "if calibrate and frame.logfc.loc[calibrate] < 0"
\* needs the group in the index (a KeyError otherwise)
CalibrateDefined(frame, c) == c = None \/ c[1] \in DOMAIN frame
Calibrate(frame, c) ==
    IF c # None /\ frame[c[1]].logfc < 0
    THEN [g \in DOMAIN frame |-> [frame[g] EXCEPT !.logfc = -1 * @]]
    ELSE frame

\* DataFrame.drop_duplicates(keep=False), line 222: every row whose values
\* (padj, logfc, basemean) are the values of another row goes
DropDuplicates(frame) ==
    LET keep == {g \in DOMAIN frame :
                    \A h \in DOMAIN frame : h # g => frame[h] # frame[g]}
    IN  [g \in keep |-> frame[g]]

\* The index translate_to_orthologs is given: what fetch_orthologs returns for
\* the lines "G1 AAAA|1 AAAA|2" and "G2 AAAA|3" when species AAAA is excluded
\* from the counts.
IndexBuilt ==
    /\ mustcontain = None
    /\ exclude = Some({"AAAA"})
    /\ duplicates = FALSE
    /\ ortho_dic = [g \in {"G1", "AAAA|1", "AAAA|2", "G2", "AAAA|3"} |->
                        IF g \in {"G1", "AAAA|1", "AAAA|2"} THEN "G1" ELSE "G2"]
    /\ ortho_idx = [o \in {"G1", "G2"} |->
                        IF o = "G1" THEN <<"AAAA|1", "AAAA|2">> ELSE <<"AAAA|3">>]
    /\ nlines = 2
    /\ lastline = <<"G2", "AAAA|3">>
    /\ handle = <<<<"G1", "AAAA|1", "AAAA|2">>, <<"G2", "AAAA|3">>>>
    /\ ostatus = "closed"

TranslateInit ==
    /\ MainIdle
    /\ IndexBuilt
    /\ PairwiseIdle
    /\ GlobalIdle
    /\ EnrichIdle
    /\ calibrate \in {None} \cup {Some(o) : o \in GroupIds}
    /\ tduplicates \in BOOLEAN
    /\ degdic = EmptyDict
    /\ contrib = EmptyDict
    /\ nrows = 0
    /\ lastrow = <<>>
    /\ df = None
    /\ ncal = 0
    /\ lastcal = None
    /\ tstatus = "reading"

\* One pass of "for line in handle", lines 188-211
ReadRow ==
    /\ tstatus = "reading"
    /\ nrows < MaxRows
    /\ \E cols \in ExpRows :
         /\ nrows' = nrows + 1
         /\ lastrow' = cols
         /\ IF ~KeptRow(cols, ortho_dic)
            THEN UNCHANGED <<degdic, contrib, tstatus>>
            ELSE IF PadjOf(cols) = None
            THEN /\ tstatus' = "ValueError"
                 /\ UNCHANGED <<degdic, contrib>>
            ELSE /\ contrib' = DictSet(contrib, ortho_dic[cols[1]],
                                IF ortho_dic[cols[1]] \in DOMAIN contrib
                                THEN contrib[ortho_dic[cols[1]]] + 1 ELSE 1)
                 /\ degdic' = DictSet(degdic, ortho_dic[cols[1]],
                                [padj |-> PadjOf(cols)[1],
                                 logfc |-> FloatOrZero(cols[3]),
                                 basemean |-> FloatOrZero(cols[2])])
                 /\ UNCHANGED tstatus
    /\ UNCHANGED <<calibrate, tduplicates, df, ncal, lastcal>>

\* The end of the file and the frame, lines 212-224
BuildFrame ==
    /\ tstatus = "reading"
    /\ IF ~CalibrateDefined(degdic, calibrate)
       THEN /\ tstatus' = "KeyError"
            /\ UNCHANGED <<df, lastcal>>
       ELSE /\ tstatus' = "returned"
            /\ lastcal' = calibrate
            /\ df' = Some(IF tduplicates
                          THEN DropDuplicates(Calibrate(degdic, calibrate))
                          ELSE Calibrate(degdic, calibrate))
    /\ UNCHANGED <<calibrate, tduplicates, degdic, contrib, nrows, lastrow, ncal>>

\* The caller's calibration of a frame it was returned, lines 575-576
CalibrateFrame ==
    /\ tstatus = "returned"
    /\ ncal < MaxCal
    /\ \E c \in GroupIds :
         /\ ncal' = ncal + 1
         /\ IF ~CalibrateDefined(df[1], Some(c))
            THEN /\ tstatus' = "KeyError"
                 /\ UNCHANGED <<df, lastcal>>
            ELSE /\ df' = Some(Calibrate(df[1], Some(c)))
                 /\ lastcal' = Some(c)
                 /\ UNCHANGED tstatus
    /\ UNCHANGED <<calibrate, tduplicates, degdic, contrib, nrows, lastrow>>

TranslateNext ==
    \/ ReadRow /\ TranslateOnly
    \/ BuildFrame /\ TranslateOnly
    \/ CalibrateFrame /\ TranslateOnly

SpecTranslate == TranslateInit /\ [][TranslateNext]_vars

----------------------------------------------------------------------------
(* pairwise_comparisons *)

\* fetch_orthologs has not been called: the frames of this part stand for
\* what translate_to_orthologs returned
OrthoIdle ==
    /\ mustcontain = None
    /\ exclude = None
    /\ duplicates = FALSE
    /\ ortho_dic = EmptyDict
    /\ ortho_idx = EmptyDict
    /\ nlines = 0
    /\ lastline = <<>>
    /\ handle = <<>>
    /\ ostatus = "idle"

NaN == <<>>
Num(v) == <<v>>
\* comparisons of a float column with a number: False on a NaN
LE(x, c) == x # NaN /\ x[1] <= c
GT(x, c) == x # NaN /\ x[1] > c
LT(x, c) == x # NaN /\ x[1] < c

\* 0.05, the significance level of lines 632-654, in thousandths
Alpha == 50

GroupName(i) == <<"G1", "G2", "G3", "G4">>[i]
ExpName(i) == <<"expA.txt", "expB.txt", "expC.txt", "expD.txt">>[i]
\* os.path.basename(e)[:5], lines 418 and 594-595
Label(e) ==
    CASE e = "expA.txt" -> "expA."
      [] e = "expA.csv" -> "expA."
      [] e = "expB.txt" -> "expB."
      [] e = "expC.txt" -> "expC."
      [] e = "expD.txt" -> "expD."

\* the rows a translated frame may hold: significant (padj 0.05) with a fold
\* change of 1, -1 or 0, or not significant (padj 0.2) with a fold change of 1
\* (of -1 once a calibration has negated the column)
FrameRows ==
    [padj : {50}, logfc : {-1000, 0, 1000}, basemean : {100000}]
    \cup {[padj |-> 200, logfc |-> 1000, basemean |-> 100000]}
Frames(groups) == UNION {[d -> FrameRows] : d \in SUBSET groups}
\* the ortholog groups of the frames of a run with n experiments
GroupsFor(n) ==
    LET k == IF MaxCells \div n < MaxGroups THEN MaxCells \div n ELSE MaxGroups
    IN  {GroupName(i) : i \in 1..k}

\* df1.join(df2, how='left', lsuffix="1st"), line 590
Join(df1, df2) ==
    [g \in DOMAIN df1 |->
        [padj1st |-> Num(df1[g].padj), logfc1st |-> Num(df1[g].logfc),
         basemean1st |-> Num(df1[g].basemean),
         padj |-> IF g \in DOMAIN df2 THEN Num(df2[g].padj) ELSE NaN,
         logfc |-> IF g \in DOMAIN df2 THEN Num(df2[g].logfc) ELSE NaN,
         basemean |-> IF g \in DOMAIN df2 THEN Num(df2[g].basemean) ELSE NaN]]

\* DataFrame.dropna(), lines 124 and 592
DropNa(t) ==
    [g \in {h \in DOMAIN t : \A f \in DOMAIN t[h] : t[h][f] # NaN} |-> t[g]]

\* lines 589-592
JoinedPair(df1, df2, drop) == IF drop THEN DropNa(Join(df1, df2)) ELSE Join(df1, df2)

\* SigSets with ">= 0.05" for the first experiment's non-significant positives
SigSets_ge(df3) ==
    [df1_sp |-> {g \in DOMAIN df3 : LE(df3[g].padj1st, Alpha) /\ GT(df3[g].logfc1st, 0)},
     df2_sp |-> {g \in DOMAIN df3 : LE(df3[g].padj, Alpha) /\ GT(df3[g].logfc, 0)},
     df1_sn |-> {g \in DOMAIN df3 : LE(df3[g].padj1st, Alpha) /\ LT(df3[g].logfc1st, 0)},
     df2_sn |-> {g \in DOMAIN df3 : LE(df3[g].padj, Alpha) /\ LT(df3[g].logfc, 0)},
     df1_nsp |-> {g \in DOMAIN df3 : ~LT(df3[g].padj1st, Alpha) /\ GT(df3[g].logfc1st, 0)},
     df2_nsp |-> {g \in DOMAIN df3 : GT(df3[g].padj, Alpha) /\ GT(df3[g].logfc, 0)},
     df1_nsn |-> {g \in DOMAIN df3 : GT(df3[g].padj1st, Alpha) /\ LT(df3[g].logfc1st, 0)},
     df2_nsn |-> {g \in DOMAIN df3 : GT(df3[g].padj, Alpha) /\ LT(df3[g].logfc, 0)}]

\* lines 632-640
SigSets(df3) ==
    [df1_sp |-> {g \in DOMAIN df3 : LE(df3[g].padj1st, Alpha) /\ GT(df3[g].logfc1st, 0)},
     df2_sp |-> {g \in DOMAIN df3 : LE(df3[g].padj, Alpha) /\ GT(df3[g].logfc, 0)},
     df1_sn |-> {g \in DOMAIN df3 : LE(df3[g].padj1st, Alpha) /\ LT(df3[g].logfc1st, 0)},
     df2_sn |-> {g \in DOMAIN df3 : LE(df3[g].padj, Alpha) /\ LT(df3[g].logfc, 0)},
     df1_nsp |-> {g \in DOMAIN df3 : GT(df3[g].padj1st, Alpha) /\ GT(df3[g].logfc1st, 0)},
     df2_nsp |-> {g \in DOMAIN df3 : GT(df3[g].padj, Alpha) /\ GT(df3[g].logfc, 0)},
     df1_nsn |-> {g \in DOMAIN df3 : GT(df3[g].padj1st, Alpha) /\ LT(df3[g].logfc1st, 0)},
     df2_nsn |-> {g \in DOMAIN df3 : GT(df3[g].padj, Alpha) /\ LT(df3[g].logfc, 0)}]

\* lines 643-644
NumConcord(df3) ==
    Cardinality({g \in DOMAIN df3 :
        \/ GT(df3[g].logfc1st, 0) /\ GT(df3[g].logfc, 0)
        \/ LT(df3[g].logfc1st, 0) /\ LT(df3[g].logfc, 0)})

\* lines 649-651
NumClose(df3) ==
    Cardinality({g \in DOMAIN df3 :
        /\ \/ GT(df3[g].logfc1st, 0) /\ GT(df3[g].logfc, 0)
           \/ LT(df3[g].logfc1st, 0) /\ LT(df3[g].logfc, 0)
        /\ LE(df3[g].padj, Alpha) \/ LE(df3[g].padj1st, Alpha)})

\* the frame of line 654, whose length is num_sig
SigRows(df3) ==
    {g \in DOMAIN df3 : LE(df3[g].padj, Alpha) \/ LE(df3[g].padj1st, Alpha)}

\* 0.5, the level line 610 and line 612 compare the second experiment's padj
\* with, in thousandths
OneDegAlpha == 500

\* the rows of the two frames whose fold changes onedeg_corr correlates,
\* lines 610-613
OnedegRows(df3) ==
    {g \in DOMAIN df3 : LE(df3[g].padj, OneDegAlpha) \/ LE(df3[g].padj1st, Alpha)}

\* sigcounts whose pos1_u keeps the groups of discord_1p
sigcounts_keep(pos1, pos2, neg1, neg2) ==
    LET concord_p == pos1 \cap pos2
        concord_n == neg1 \cap neg2
        discord_1p == pos1 \cap neg2
        discord_2p == pos2 \cap neg1
        pos1_u == pos1 \ concord_p
        pos2_u == (pos2 \ concord_p) \ discord_2p
        neg1_u == (neg1 \ concord_n) \ discord_2p
        neg2_u == (neg2 \ concord_n) \ discord_1p
    IN  <<pos1_u, pos2_u, neg2_u, neg1_u, concord_p, discord_2p, concord_n, discord_1p>>

\* sigcounts, lines 226-240: the tuple fordrawing, whose lengths it returns
sigcounts(pos1, pos2, neg1, neg2) ==
    LET concord_p == pos1 \cap pos2
        concord_n == neg1 \cap neg2
        discord_1p == pos1 \cap neg2
        discord_2p == pos2 \cap neg1
        pos1_u == (pos1 \ concord_p) \ discord_1p
        pos2_u == (pos2 \ concord_p) \ discord_2p
        neg1_u == (neg1 \ concord_n) \ discord_2p
        neg2_u == (neg2 \ concord_n) \ discord_1p
    IN  <<pos1_u, pos2_u, neg2_u, neg1_u, concord_p, discord_2p, concord_n, discord_1p>>

\* concordancecounts, lines 242-262; bkgd_freq is the fraction
\* <<bkgd_con, bkgd_con + bkgd_dis>>, whose division raises when that is 0
concordancecounts(s) ==
    [con_sig1 |-> (s.df1_sp \cap s.df2_sp) \cup (s.df1_sn \cap s.df2_sn),
     con_nsig1 |-> (s.df1_sp \cap s.df2_nsp) \cup (s.df1_sn \cap s.df2_nsn),
     ncon_sig1 |-> (s.df1_sp \cap s.df2_sn) \cup (s.df1_sn \cap s.df2_sp),
     ncon_nsig1 |-> (s.df1_sp \cap s.df2_nsn) \cup (s.df1_sn \cap s.df2_nsp),
     con_sig2 |-> (s.df1_sp \cap s.df2_sp) \cup (s.df1_sn \cap s.df2_sn),
     con_nsig2 |-> (s.df1_nsp \cap s.df2_sp) \cup (s.df1_nsn \cap s.df2_sn),
     ncon_sig2 |-> (s.df1_sp \cap s.df2_sn) \cup (s.df1_sn \cap s.df2_sp),
     ncon_nsig2 |-> (s.df1_nsp \cap s.df2_sn) \cup (s.df1_nsn \cap s.df2_sp),
     bkgd_con |-> Cardinality((s.df1_nsp \cap s.df2_nsp) \cup (s.df1_nsn \cap s.df2_nsn)
                              \cup (s.df1_sp \cap s.df2_sp) \cup (s.df1_sn \cap s.df2_sn)),
     bkgd_dis |-> Cardinality((s.df1_nsp \cap s.df2_nsn) \cup (s.df1_nsn \cap s.df2_nsp)
                              \cup (s.df1_sn \cap s.df2_sp) \cup (s.df1_sp \cap s.df2_sn))]

\* line 671
IntersectionAb(s) ==
    Cardinality(s.df1_sp \cap s.df2_sp) + Cardinality(s.df1_sn \cap s.df2_sn)

\* The locals of one pass of the loop over a pair, lines 589-711, for the
\* joined frame df3, the sets s of lines 632-640 and the result cc of
\* concordancecounts.  "raised" names the first division by zero of the pass:
\* line 655 (num_sig), line 258 (the background counts) or line 673.
PairLocals(exp1, exp2, df3, s, cc) ==
    LET num_sig == Cardinality(SigRows(df3))
        raised == IF num_sig = 0 THEN 655
                  ELSE IF cc.bkgd_con + cc.bkgd_dis = 0 THEN 258
                  ELSE IF num_sig - IntersectionAb(s) = 0 THEN 673
                  ELSE 0
    IN  [exp1 |-> exp1, exp2 |-> exp2, df3 |-> df3, sets |-> s,
         num_concord |-> NumConcord(df3), num_close |-> NumClose(df3),
         num_sig |-> num_sig, onedeg_rows |-> OnedegRows(df3),
         concordance_sets |-> IF raised \in {655, 258} THEN None ELSE Some(cc),
         ijidx |-> IF raised # 0 THEN None
                   ELSE Some(<<num_sig, num_sig - IntersectionAb(s)>>),
         fordrawing |-> IF raised # 0 THEN None
                        ELSE Some(sigcounts(s.df1_sp, s.df2_sp, s.df1_sn, s.df2_sn)),
         raised |-> raised]

\* pairwise_container, lines 415-427: a frame of empty cells
pairwise_container(names) ==
    [c \in {Label(e) : e \in Range(names)} \X {Label(e) : e \in Range(names)} |-> None]

\* IntersectAll with set.union in the place of set.intersection
IntersectAll_union(sets) == UNION {sets[i] : i \in DOMAIN sets}

\* set.intersection(*sets), line 724, for a list that is not empty
IntersectAll(sets) == {g \in sets[1] : \A i \in DOMAIN sets : g \in sets[i]}

Exp1At(k) == experiments[(k \div Len(experiments)) + 1]
Exp2At(k) == experiments[(k % Len(experiments)) + 1]

PairwiseInit ==
    /\ MainIdle
    /\ OrthoIdle
    /\ TranslateIdle
    /\ EnrichIdle
    /\ \E n \in 2..MaxExp :
         /\ experiments = [i \in 1..n |-> ExpName(i)]
         /\ files \in [Range(experiments) -> Frames(GroupsFor(n))]
         /\ jaccard_array = pairwise_container(experiments)
    /\ drop_nas \in BOOLEAN
    /\ pairno = 0
    /\ last = None
    /\ concordant_sig_genesets = <<>>
    /\ common_to_all = None
    /\ pstatus = "looping"

\* the calibration group of this run: G1 or none
PairwiseInitCal ==
    /\ PairwiseInit
    /\ GlobalIdle
    /\ calibrate \in {None, Some("G1")}

\* a pass of the loop of line 560 for a file paired with itself, lines 566-567
SkipSame ==
    /\ pstatus = "looping"
    /\ pairno < Len(experiments) * Len(experiments)
    /\ Exp1At(pairno) = Exp2At(pairno)
    /\ pairno' = pairno + 1
    /\ UNCHANGED <<experiments, files, drop_nas, last, concordant_sig_genesets,
                   jaccard_array, common_to_all, pstatus>>

\* a pass of the loop of line 560 for two files, lines 569-711
ComparePair ==
    /\ pstatus = "looping"
    /\ pairno < Len(experiments) * Len(experiments)
    /\ Exp1At(pairno) # Exp2At(pairno)
    /\ pairno' = pairno + 1
    /\ LET exp1 == Exp1At(pairno)
           exp2 == Exp2At(pairno)
       IN  IF ~CalibrateDefined(files[exp1], calibrate)
              \/ ~CalibrateDefined(files[exp2], calibrate)
           THEN /\ pstatus' = "KeyError"
                /\ UNCHANGED <<last, concordant_sig_genesets, jaccard_array>>
           ELSE \E df3 \in {JoinedPair(Calibrate(files[exp1], calibrate),
                                        Calibrate(files[exp2], calibrate), drop_nas)} :
                \E s \in {SigSets(df3)} :
                \E loc \in {PairLocals(exp1, exp2, df3, s, concordancecounts(s))} :
                    /\ last' = Some(loc)
                    /\ pstatus' = IF loc.raised # 0 THEN "ZeroDivisionError"
                                  ELSE "looping"
                    /\ concordant_sig_genesets' =
                         IF loc.concordance_sets = None THEN concordant_sig_genesets
                         ELSE Append(concordant_sig_genesets,
                                     loc.concordance_sets[1].con_sig1)
                    /\ jaccard_array' =
                         IF loc.ijidx = None THEN jaccard_array
                         ELSE [jaccard_array EXCEPT
                                 ![<<Label(exp1), Label(exp2)>>] = loc.ijidx]
    /\ UNCHANGED <<experiments, files, drop_nas, common_to_all>>

\* after the loop, lines 713-808
FinishPairwise ==
    /\ pstatus = "looping"
    /\ pairno = Len(experiments) * Len(experiments)
    /\ IF concordant_sig_genesets = <<>>
       THEN /\ pstatus' = "TypeError"
            /\ UNCHANGED common_to_all
       ELSE /\ pstatus' = "returned"
            /\ common_to_all' = Some(IntersectAll(concordant_sig_genesets))
    /\ UNCHANGED <<experiments, files, drop_nas, pairno, last,
                   concordant_sig_genesets, jaccard_array>>

PairwiseNext ==
    \/ SkipSame /\ PairwiseOnly
    \/ ComparePair /\ PairwiseOnly
    \/ FinishPairwise /\ PairwiseOnly

SpecPairwise == PairwiseInitCal /\ [][PairwiseNext]_vars

\* pairwise_comparisons on a list of different files, two of which have the
\* same first five characters
FileNames == {"expA.txt", "expA.csv", "expB.txt"}
DistinctLists ==
    {l \in SeqsUpTo(FileNames, MaxExp) :
        Len(l) >= 2 /\ \A i \in DOMAIN l : \A j \in DOMAIN l : i # j => l[i] # l[j]}

LabelsInit ==
    /\ MainIdle
    /\ OrthoIdle
    /\ TranslateIdle
    /\ GlobalIdle
    /\ EnrichIdle
    /\ calibrate = None
    /\ experiments \in DistinctLists
    /\ files \in [Range(experiments) -> Frames(GroupsFor(MaxExp))]
    /\ jaccard_array = pairwise_container(experiments)
    /\ drop_nas = TRUE
    /\ pairno = 0
    /\ last = None
    /\ concordant_sig_genesets = <<>>
    /\ common_to_all = None
    /\ pstatus = "looping"

SpecLabels == LabelsInit /\ [][PairwiseNext]_vars

----------------------------------------------------------------------------
(* global_dataframe and global_comparisons *)

\* The wide frame maps a group to one (padj, logfc, basemean) per experiment
\* joined so far: the columns padj, logfc, basemean, padj_1, logfc_1, ...
NumRow(r) == [padj |-> Num(r.padj), logfc |-> Num(r.logfc), basemean |-> Num(r.basemean)]
NaNRow == [padj |-> NaN, logfc |-> NaN, basemean |-> NaN]

\* dfall.join(dfnew, how='left', rsuffix=...), line 120
WideJoin(wide, dfnew) ==
    [g \in DOMAIN wide |->
        Append(wide[g], IF g \in DOMAIN dfnew THEN NumRow(dfnew[g]) ELSE NaNRow)]

\* dfall.isnull().sum(axis=1) for one row, line 814
NullCount(row) ==
    Cardinality({<<i, f>> \in (DOMAIN row) \X {"padj", "logfc", "basemean"} :
                    row[i][f] = NaN})

\* dfall.dropna(), line 124
DropNaWide(wide) == [g \in {h \in DOMAIN wide : NullCount(wide[h]) = 0} |-> wide[g]]

\* enough with <= in the place of <
GlobalEnough_le(row, n) == NullCount(row) <= 3 * (n - 1)

\* lines 813-815: missing = nulls / 3., enough = missing < len(experiments) - 1
GlobalEnough(row, n) == NullCount(row) < 3 * (n - 1)
\* lines 818-822
GlobalSig(row) == \A i \in DOMAIN row : LE(row[i].padj, Alpha) \/ row[i].padj = NaN
\* lines 825-829
GlobalNeg(row) == \A i \in DOMAIN row : LT(row[i].logfc, 0) \/ row[i].logfc = NaN
\* GlobalPos that takes a fold change of zero for a positive one
GlobalPos_ge(row) == \A i \in DOMAIN row : ~LT(row[i].logfc, 0)

\* lines 832-836
GlobalPos(row) == \A i \in DOMAIN row : GT(row[i].logfc, 0) \/ row[i].logfc = NaN
\* line 860
GlobalConcordant(row) == GlobalPos(row) \/ GlobalNeg(row)

\* the index of dfall[concordant & sig & enough], line 941
global_comparisons(wide, n) ==
    {g \in DOMAIN wide :
        GlobalConcordant(wide[g]) /\ GlobalSig(wide[g]) /\ GlobalEnough(wide[g], n)}

GlobalInit ==
    /\ PairwiseInit
    /\ calibrate \in {None, Some("G1")}
    /\ dfall = None
    /\ njoined = 0
    /\ orthologs = None
    /\ gstatus = "joining"

\* lines 116-117: the frame of the first experiment (duplicates off)
GlobalFirst ==
    /\ gstatus = "joining"
    /\ njoined = 0
    /\ njoined' = 1
    /\ IF ~CalibrateDefined(files[experiments[1]], calibrate)
       THEN /\ gstatus' = "KeyError"
            /\ UNCHANGED dfall
       ELSE /\ dfall' = Some([g \in DOMAIN files[experiments[1]] |->
                        <<NumRow(Calibrate(files[experiments[1]], calibrate)[g])>>])
            /\ UNCHANGED gstatus
    /\ UNCHANGED orthologs

\* one pass of the loop of lines 118-124 (duplicates off)
GlobalJoin ==
    /\ gstatus = "joining"
    /\ njoined >= 1
    /\ njoined < Len(experiments)
    /\ njoined' = njoined + 1
    /\ LET exp == experiments[njoined + 1]
       IN  IF ~CalibrateDefined(files[exp], calibrate)
           THEN /\ gstatus' = "KeyError"
                /\ UNCHANGED dfall
           ELSE /\ dfall' = Some(
                       IF drop_nas
                       THEN DropNaWide(WideJoin(dfall[1], Calibrate(files[exp], calibrate)))
                       ELSE WideJoin(dfall[1], Calibrate(files[exp], calibrate)))
                /\ UNCHANGED gstatus
    /\ UNCHANGED orthologs

\* the return of global_dataframe without a filter list (lines 126-129) and
\* global_comparisons, lines 810-941
GlobalCompare ==
    /\ gstatus = "joining"
    /\ njoined = Len(experiments)
    /\ orthologs' = Some(global_comparisons(dfall[1], Len(experiments)))
    /\ gstatus' = "returned"
    /\ UNCHANGED <<dfall, njoined>>

GlobalNext ==
    \/ GlobalFirst /\ GlobalOnly
    \/ GlobalJoin /\ GlobalOnly
    \/ GlobalCompare /\ GlobalOnly

SpecGlobal == GlobalInit /\ [][GlobalNext]_vars

\* The two modes on the same experiments, as the script runs them with
\* --globally and --pairwise (lines 992-1031): the global analysis, then the
\* pairwise one, with NAs dropped
ModesInit ==
    /\ GlobalInit
    /\ drop_nas

ModesNext ==
    \/ GlobalFirst /\ GlobalOnly
    \/ GlobalJoin /\ GlobalOnly
    \/ GlobalCompare /\ GlobalOnly
    \/ gstatus = "returned" /\ SkipSame /\ PairwiseOnly
    \/ gstatus = "returned" /\ ComparePair /\ PairwiseOnly
    \/ gstatus = "returned" /\ FinishPairwise /\ PairwiseOnly

SpecModes == ModesInit /\ [][ModesNext]_vars

----------------------------------------------------------------------------
(* enrichment.  Fisher_square.fisher_test and p_to_q are genomepy's: the   *)
(* p-value of a test and the q-values of p_to_q are inputs of the model.   *)

PfamIds == {"PF1", "PF2"}
\* the gene names of the annotation file: with or without the species prefix
PfamGenes == {"1", "2", "AAAA|3"}
\* the p-values fisher_test gives and the q-values p_to_q gives, in thousandths
PValues == {10, 200}
QValues == {20, 300}

\* gene[5:], lines 435 and 477
Strip5(g) ==
    CASE g = "AAAA|1" -> "1"
      [] g = "AAAA|2" -> "2"
      [] g = "AAAA|3" -> "3"
      [] g = "BBBB|1" -> "1"
      [] OTHER -> ""

\* A line of the annotation file after line.split(): an empty line, a comment
\* (its first character is '#'), or a hit whose column 1 is the pfam accession
\* and whose column 3 is the gene
PfamLines ==
    {<<>>, <<"#", "target">>}
    \cup {<<"dom", pf, "120", g>> : pf \in PfamIds, g \in PfamGenes}

\* lines 435-436: the keys of background_gene_set
BackgroundGeneSet(index, idx) ==
    UNION {{Strip5(idx[o][i]), idx[o][i]} : <<o, i>> \in
              {<<o, i>> \in index \X (1..MaxMembers + 1) : i \in DOMAIN idx[o]}}

\* list.append on the entry of a dict of lists, lines 455-463
DictAppend(d, k, v) == DictSet(d, k, Append(IF k \in DOMAIN d THEN d[k] ELSE <<>>, v))

\* lines 476-484: the pfams of the first member of a group that the annotation
\* knows, by its name without the prefix or else by its whole name
FirstAnnotated(members, acc) ==
    LET hits == {i \in DOMAIN members :
                    Strip5(members[i]) \in DOMAIN acc \/ members[i] \in DOMAIN acc}
    IN  IF hits = {} THEN {}
        ELSE LET g == members[CHOOSE i \in hits : \A j \in hits : i <= j]
             IN  IF Strip5(g) \in DOMAIN acc THEN Range(acc[Strip5(g)])
                 ELSE Range(acc[g])

\* sum( 1 for g in pfam_idx[pfam] if g in background_gene_set), line 490
CountIn(list, set) == Cardinality({i \in DOMAIN list : list[i] \in set})

\* Fisher_square of lines 488-499, not tested yet
Fisher_square(pfam, counter, idx, target, index, oidx) ==
    LET degs_w_pfam == counter[pfam]
        degs_wo_pfam == Cardinality(target) - degs_w_pfam
        nogs_w_pfam == CountIn(idx[pfam], BackgroundGeneSet(index, oidx)) - degs_w_pfam
        nogs_wo_pfam == Cardinality(index) - Cardinality(target) - nogs_w_pfam
    IN  [TwG |-> degs_w_pfam, TwoG |-> degs_wo_pfam, NwG |-> nogs_w_pfam,
         NwoG |-> nogs_wo_pfam, p |-> None]

\* the test of lines 508-512: None when nothing is verbalised for the square
Verdict(sq, q) ==
    IF sq.p[1] \in DOMAIN q
    THEN IF q[sq.p[1]] <= Alpha /\ sq.TwG > 1 THEN Some("FDR") ELSE None
    ELSE IF sq.p[1] <= Alpha /\ sq.TwG > 1 THEN Some("FDR not determined") ELSE None

\* enrichment(df3, ortho_idx, common_to_all) is called with the index of
\* IndexBuilt, a background and a target among the background's groups
EnrichInit ==
    /\ MainIdle
    /\ IndexBuilt
    /\ TranslateIdle
    /\ GlobalIdle
    /\ calibrate = None
    /\ experiments = <<>>
    /\ files = EmptyDict
    /\ drop_nas = TRUE
    /\ pairno = 0
    /\ last = None
    /\ concordant_sig_genesets = <<>>
    /\ jaccard_array = EmptyDict
    /\ pstatus = "returned"
    /\ edf3 \in SUBSET GroupIds
    /\ common_to_all \in {Some(t) : t \in SUBSET edf3}
    /\ pfam_idx = EmptyDict
    /\ pfam_acc = EmptyDict
    /\ npfam = 0
    /\ common_pfams = {}
    /\ deg_pfam_counter = EmptyDict
    /\ fs = EmptyDict
    /\ fdr = EmptyDict
    /\ reported = EmptyDict
    /\ estatus = "reading"

\* one pass of "for line in handle", lines 445-463
ReadPfamLine ==
    /\ estatus = "reading"
    /\ npfam < MaxPfamLines
    /\ \E cols \in PfamLines :
         /\ npfam' = npfam + 1
         /\ IF Len(cols) = 0 \/ cols[1] = "#"
            THEN UNCHANGED <<pfam_idx, pfam_acc>>
            ELSE /\ pfam_idx' = DictAppend(pfam_idx, cols[2], cols[4])
                 /\ pfam_acc' = DictAppend(pfam_acc, cols[4], cols[2])
    /\ UNCHANGED <<edf3, common_pfams, deg_pfam_counter, fs, fdr, reported, estatus>>

\* the end of the file and the loop over the target groups, lines 465-484
CollectPfams ==
    /\ estatus = "reading"
    /\ estatus' = "collected"
    /\ common_pfams' =
         UNION {FirstAnnotated(ortho_idx[o], pfam_acc) : o \in common_to_all[1]}
    /\ deg_pfam_counter' =
         [pf \in common_pfams' |->
            Cardinality({o \in common_to_all[1] :
                            pf \in FirstAnnotated(ortho_idx[o], pfam_acc)})]
    /\ UNCHANGED <<edf3, pfam_idx, pfam_acc, npfam, fs, fdr, reported>>

\* the loop "for pfam in common_pfams", lines 487-499
BuildSquares ==
    /\ estatus = "collected"
    /\ estatus' = "built"
    /\ fs' = [pf \in common_pfams |->
                Fisher_square(pf, deg_pfam_counter, pfam_idx, common_to_all[1],
                              edf3, ortho_idx)]
    /\ UNCHANGED <<edf3, pfam_idx, pfam_acc, npfam, common_pfams, deg_pfam_counter,
                   fdr, reported>>

\* lines 501-504: every square is tested and p_to_q maps p-values to q-values
\* (a q-value is never below its p-value)
TestSquares ==
    /\ estatus = "built"
    /\ estatus' = "tested"
    /\ \E ps \in [DOMAIN fs -> PValues] :
         /\ fs' = [pf \in DOMAIN fs |-> [fs[pf] EXCEPT !.p = Some(ps[pf])]]
         /\ \E keys \in SUBSET {ps[pf] : pf \in DOMAIN fs} :
            \E q \in [keys -> QValues] :
                /\ \A k \in keys : q[k] >= k
                /\ fdr' = q
    /\ UNCHANGED <<edf3, pfam_idx, pfam_acc, npfam, common_pfams, deg_pfam_counter,
                   reported>>

\* the loop of lines 507-514
ReportSquares ==
    /\ estatus = "tested"
    /\ estatus' = "reported"
    /\ reported' = [pf \in {x \in DOMAIN fs : Verdict(fs[x], fdr) # None} |->
                        Verdict(fs[pf], fdr)[1]]
    /\ UNCHANGED <<edf3, pfam_idx, pfam_acc, npfam, common_pfams, deg_pfam_counter,
                   fs, fdr>>

EnrichNext ==
    \/ ReadPfamLine /\ EnrichOnly
    \/ CollectPfams /\ EnrichOnly
    \/ BuildSquares /\ EnrichOnly
    \/ TestSquares /\ EnrichOnly
    \/ ReportSquares /\ EnrichOnly

SpecEnrich == EnrichInit /\ [][EnrichNext]_vars

----------------------------------------------------------------------------
(* The script, lines 945-1066.  The analyses are the functions modelled     *)
(* above; here a call of one is the files it opens and whether it returns.  *)

\* the command lines: the experiments in order, and the options that decide
\* what the script reads and where it stops
ArgsSet ==
    [experiments : SeqsUpTo({"expA.txt", "expB.txt"}, MaxArgs),
     exclude : {None, Some({"AAAA"})},
     manage_duplicates : BOOLEAN,
     globally : BOOLEAN,
     pairwise : BOOLEAN,
     name_genes : BOOLEAN,
     enrichment : BOOLEAN]

\* the orthology files: no line, a line without columns, a group
OrthoFiles == {<<>>, <<<<>>>>, <<<<"G1", "AAAA|1", "BBBB|1">>>>}

\* fetch_orthologs raises on a file: a line with columns reaches line 160
\* with exclude None
FetchRaises(lines, excl, dups) ==
    \E i \in DOMAIN lines :
        lines[i] # <<>> /\ CountSpecies(lines[i], 1, EmptyDict, excl, dups) = None

\* the files global_dataframe opens, one translate_to_orthologs per experiment
\* (lines 116-119)
GlobalReads(exps) == exps

\* the files the loop of pairwise_comparisons opens, lines 560-571
RECURSIVE PairwiseReads(_, _)
PairwiseReads(exps, k) ==
    IF k >= Len(exps) * Len(exps) THEN <<>>
    ELSE LET exp1 == exps[(k \div Len(exps)) + 1]
             exp2 == exps[(k % Len(exps)) + 1]
         IN  (IF exp1 = exp2 THEN <<>> ELSE <<exp1, exp2>>) \o PairwiseReads(exps, k + 1)

MainInit ==
    /\ OrthoIdle
    /\ TranslateIdle
    /\ PairwiseIdle
    /\ GlobalIdle
    /\ EnrichIdle
    /\ calibrate = None
    /\ args \in ArgsSet
    /\ isfile \in SUBSET {"expA.txt", "expB.txt"}
    /\ orthofile \in OrthoFiles
    /\ opened = <<>>
    /\ mpc = "check"

\* lines 952-959: every experiment file must exist
CheckExperiments ==
    /\ mpc = "check"
    /\ mpc' = IF \E i \in DOMAIN args.experiments : args.experiments[i] \notin isfile
              THEN "exit1" ELSE "fetch"
    /\ UNCHANGED <<args, isfile, orthofile, opened>>

\* lines 961-982: the call of fetch_orthologs
FetchIndex ==
    /\ mpc = "fetch"
    /\ opened' = Append(opened, "orthologs")
    /\ mpc' = IF FetchRaises(orthofile, args.exclude, args.manage_duplicates)
              THEN "TypeError" ELSE "analyse"
    /\ UNCHANGED <<args, isfile, orthofile>>

\* lines 1033-1035: fewer than two experiments
Insufficient ==
    /\ mpc = "analyse"
    /\ Len(args.experiments) <= 1
    /\ mpc' = "exit1"
    /\ UNCHANGED <<args, isfile, orthofile, opened>>

\* lines 984-1023: the global analysis, which opens the experiments in order
\* and returns or ends with an exception after one of them
GlobalAnalysis ==
    /\ mpc = "analyse"
    /\ Len(args.experiments) > 1
    /\ IF ~args.globally
       THEN mpc' = "pairwise" /\ UNCHANGED opened
       ELSE \E k \in 1..Len(GlobalReads(args.experiments)) : \E ok \in BOOLEAN :
               /\ opened' = opened \o SubSeq(GlobalReads(args.experiments), 1, k)
               /\ mpc' = IF ok /\ k = Len(GlobalReads(args.experiments))
                         THEN "pairwise" ELSE "Exception"
    /\ UNCHANGED <<args, isfile, orthofile>>

\* lines 1025-1031: the pairwise analysis; without a pair of different files
\* line 724 calls set.intersection with no argument
PairwiseAnalysis ==
    /\ mpc = "pairwise"
    /\ IF ~args.pairwise
       THEN mpc' = "list" /\ UNCHANGED opened
       ELSE IF PairwiseReads(args.experiments, 0) = <<>>
       THEN mpc' = "TypeError" /\ UNCHANGED opened
       ELSE \E k \in 1..Len(PairwiseReads(args.experiments, 0)) : \E ok \in BOOLEAN :
               /\ opened' = opened \o SubSeq(PairwiseReads(args.experiments, 0), 1, k)
               /\ mpc' = IF ok /\ k = Len(PairwiseReads(args.experiments, 0))
                         THEN "list" ELSE "Exception"
    /\ UNCHANGED <<args, isfile, orthofile>>

\* lines 1039-1061: the list of the common orthologs, which reads the gene
\* names when there are orthologs to list
ListGenes ==
    /\ mpc = "list"
    /\ mpc' = "enrich"
    /\ \E listed \in BOOLEAN :
          opened' = IF listed /\ args.name_genes THEN Append(opened, "name_genes")
                    ELSE opened
    /\ UNCHANGED <<args, isfile, orthofile>>

\* lines 1065-1066: df3 is a local of pairwise_comparisons, not a name of the
\* script
Enrich ==
    /\ mpc = "enrich"
    /\ mpc' = IF args.enrichment THEN "NameError" ELSE "done"
    /\ UNCHANGED <<args, isfile, orthofile, opened>>

MainOnly == UNCHANGED <<ovars, tvars, pvars, gvars, evars>>

MainNext ==
    \/ CheckExperiments /\ MainOnly
    \/ FetchIndex /\ MainOnly
    \/ Insufficient /\ MainOnly
    \/ GlobalAnalysis /\ MainOnly
    \/ PairwiseAnalysis /\ MainOnly
    \/ ListGenes /\ MainOnly
    \/ Enrich /\ MainOnly

SpecMain == MainInit /\ [][MainNext]_vars

----------------------------------------------------------------------------
(* The inclusion predicate as the specification words it: over the member   *)
(* genes of a group, the species counts after coercion are at most one and  *)
(* every required species is present.                                       *)
MemberSpecies(members) == {SplitPipe(m)[1] : m \in Range(members)}
MemberCount(members, sp) ==
    Cardinality({i \in DOMAIN members : SplitPipe(members[i])[1] = sp})
CoercedCount(members, sp, excl, dups) ==
    IF dups THEN 1
    ELSE IF excl # None /\ sp \in excl[1] THEN 1
    ELSE MemberCount(members, sp)
Included(members, must, excl, dups) ==
    /\ \A sp \in MemberSpecies(members) : CoercedCount(members, sp, excl, dups) <= 1
    /\ \A r \in (IF must = None THEN {} ELSE must[1]) : r \in MemberSpecies(members)

\* C4: a line adds its genes to group_of exactly when the group satisfies the
\* inclusion predicate, and adds no key otherwise.
C4_AddsExactlyWhenIncluded ==
    [][(nlines' = nlines + 1 /\ lastline' # <<>>) =>
        LET members == Tail(lastline')
        IN  IF Included(members, mustcontain, exclude, duplicates)
            THEN \A g \in Range(members) :
                    g \in DOMAIN ortho_dic' /\ ortho_dic'[g] = lastline'[1]
            ELSE DOMAIN ortho_dic' = DOMAIN ortho_dic]_vars

\* C5: after fetch_orthologs every key of group_of maps to a key of members_of
\* whose recorded members satisfy the inclusion predicate.
C5_GroupOfMembersIncluded ==
    ostatus = "closed" =>
        \A g \in DOMAIN ortho_dic :
            /\ ortho_dic[g] \in DOMAIN ortho_idx
            /\ Included(ortho_idx[ortho_dic[g]], mustcontain, exclude, duplicates)

\* C6: when several kept rows map to one group, without collapse_duplicates the
\* group's row carries the values of the last of them (the fold change up to
\* the calibration's sign); with collapse_duplicates the group is absent and
\* every group with a single contributing row is retained.
C6_DuplicateRowsPolicy ==
    (tstatus = "returned" /\ ncal = 0) =>
        /\ \A o \in DOMAIN contrib :
              (tduplicates /\ contrib[o] >= 2) => o \notin DOMAIN df[1]
        /\ \A o \in DOMAIN contrib :
              (tduplicates /\ contrib[o] = 1) => o \in DOMAIN df[1]
        /\ (~tduplicates /\ KeptRow(lastrow, ortho_dic)) =>
              LET o == ortho_dic[lastrow[1]]
              IN  /\ o \in DOMAIN df[1]
                  /\ df[1][o].padj = PadjOf(lastrow)[1]
                  /\ df[1][o].basemean = FloatOrZero(lastrow[2])
                  /\ df[1][o].logfc \in {FloatOrZero(lastrow[3]),
                                         -1 * FloatOrZero(lastrow[3])}

\* C7: a kept row gets the parsed column 6 as adjusted p-value when it parses;
\* otherwise 1.0 for "NA" in column 5, 0.05 for a column 5 below 0.05 and 1.0 for
\* a column 5 of 0.05 or more; fold change and mean expression default to 0.
C7_PadjFallbackChain ==
    [][(nrows' = nrows + 1 /\ KeptRow(lastrow', ortho_dic)
        /\ (ParseFloat(lastrow'[7]) # None \/ lastrow'[6] = "NA"
            \/ ParseFloat(lastrow'[6]) # None)) =>
        LET cols == lastrow'
            o == ortho_dic[cols[1]]
        IN  /\ tstatus' = "reading"
            /\ o \in DOMAIN degdic'
            /\ degdic'[o].padj =
                 (IF ParseFloat(cols[7]) # None THEN ParseFloat(cols[7])[1]
                  ELSE IF cols[6] = "NA" THEN 1000
                  ELSE IF ParseFloat(cols[6])[1] < 50 THEN 50 ELSE 1000)
            /\ degdic'[o].logfc =
                 (IF ParseFloat(cols[3]) = None THEN 0 ELSE ParseFloat(cols[3])[1])
            /\ degdic'[o].basemean =
                 (IF ParseFloat(cols[2]) = None THEN 0 ELSE ParseFloat(cols[2])[1])]_vars

\* a kept row with an unparseable column 6 and a column 5 below 0.05 was given 0.05
C7_Witness ==
    /\ tstatus = "reading" /\ nrows > 0 /\ KeptRow(lastrow, ortho_dic)
    /\ lastrow[7] = "NA" /\ lastrow[6] = "0.01" /\ lastrow[3] = "NA"
    /\ degdic[ortho_dic[lastrow[1]]].padj = 50
    /\ degdic[ortho_dic[lastrow[1]]].logfc = 0

\* the relation of a frame to its calibration with a group c that is present
Calibrated(old, new, c) ==
    /\ DOMAIN new = DOMAIN old
    /\ IF old[c].logfc < 0
       THEN \A g \in DOMAIN old :
               /\ new[g].logfc = -1 * old[g].logfc
               /\ new[g].padj = old[g].padj
               /\ new[g].basemean = old[g].basemean
       ELSE new = old
    /\ new[c].logfc >= 0

\* C8: calibrating with a present group c negates every fold change when c's
\* is negative and changes nothing otherwise; afterwards c's fold change is
\* not negative and a second calibration with c changes nothing.
C8_CalibrationIdempotent ==
    [][/\ (ncal' = ncal + 1 /\ tstatus' = "returned") =>
            /\ Calibrated(df[1], df'[1], lastcal'[1])
            /\ (lastcal = lastcal' => df' = df)
       /\ (tstatus = "reading" /\ tstatus' = "returned" /\ calibrate # None
           /\ ~tduplicates) =>
            Calibrated(degdic, df'[1], calibrate[1])]_vars

\* a frame calibrated twice, the last time with G1, whose rows were all negated
C8_Witness ==
    /\ tstatus = "returned" /\ ncal = 2 /\ calibrate = None
    /\ lastcal = Some("G1")
    /\ DOMAIN df[1] = {"G1", "G2"}
    /\ df[1]["G1"].logfc = 2000
    /\ df[1]["G2"].logfc = -1500

\* the frames of a pair as the loop compares them (calibrated, lines 573-578)
FrameOf(e) == Calibrate(files[e], calibrate)
\* a group that is significant in both frames with the same strict sign
ConcordantSignificant(a, b, g) ==
    /\ g \in DOMAIN a /\ g \in DOMAIN b
    /\ a[g].padj <= Alpha /\ b[g].padj <= Alpha
    /\ \/ a[g].logfc > 0 /\ b[g].logfc > 0
       \/ a[g].logfc < 0 /\ b[g].logfc < 0
AllGroups == {GroupName(i) : i \in 1..MaxGroups}

\* C1: common_to_all is the intersection, over every ordered pair of distinct
\* experiments, of the pair's concordant-significant set: a group is returned
\* if and only if it is in the set of every pair.
C1_CommonToAllIsIntersection ==
    pstatus = "returned" =>
        common_to_all[1] =
            {g \in AllGroups :
                \A e1 \in Range(experiments) : \A e2 \in Range(experiments) :
                    e1 # e2 => ConcordantSignificant(FrameOf(e1), FrameOf(e2), g)}

\* three experiments compared, pairs whose concordant sets differ
C1_Witness ==
    /\ pstatus = "returned"
    /\ Len(experiments) = 3
    /\ \E i \in DOMAIN concordant_sig_genesets :
          /\ concordant_sig_genesets[i] # {}
          /\ concordant_sig_genesets[i] # common_to_all[1]

EightSets(s) == <<s.df1_sp, s.df1_sn, s.df1_nsp, s.df1_nsn,
                  s.df2_sp, s.df2_sn, s.df2_nsp, s.df2_nsn>>
PairwiseDisjoint(t) ==
    \A i \in DOMAIN t : \A j \in DOMAIN t : i # j => t[i] \cap t[j] = {}
UnionOf(t) == UNION {t[i] : i \in DOMAIN t}

\* C2 as stated: the eight (experiment, sign, significance) subsets of a pair
\* are pairwise disjoint and their union is the joined table's set of groups.
C2_EightSetsPartition ==
    last # None =>
        /\ PairwiseDisjoint(EightSets(last[1].sets))
        /\ UnionOf(EightSets(last[1].sets)) = DOMAIN last[1].df3

\* C2 amended: for each experiment of the pair its four subsets are pairwise
\* disjoint and their union is the set of joined groups whose fold change in
\* that experiment is present and not zero.
C2_FourSetsPartitionPerExperiment ==
    last # None =>
        LET s == last[1].sets
            df3 == last[1].df3
        IN  /\ PairwiseDisjoint(<<s.df1_sp, s.df1_sn, s.df1_nsp, s.df1_nsn>>)
            /\ PairwiseDisjoint(<<s.df2_sp, s.df2_sn, s.df2_nsp, s.df2_nsn>>)
            /\ s.df1_sp \cup s.df1_sn \cup s.df1_nsp \cup s.df1_nsn =
                 {g \in DOMAIN df3 : df3[g].logfc1st \notin {NaN, Num(0)}}
            /\ s.df2_sp \cup s.df2_sn \cup s.df2_nsp \cup s.df2_nsn =
                 {g \in DOMAIN df3 : df3[g].logfc \notin {NaN, Num(0)}}

\* a joined table with a zero fold change, a missing row and a group that is
\* significant and positive in both experiments
C2_Witness ==
    /\ last # None
    /\ \E g \in DOMAIN last[1].df3 : last[1].df3[g].logfc1st = Num(0)
    /\ \E g \in DOMAIN last[1].df3 : last[1].df3[g].logfc = NaN
    /\ last[1].sets.df1_sp \cap last[1].sets.df2_sp # {}
    /\ last[1].sets.df1_nsp # {}

\* C3 as stated: the eight sets of sigcounts are pairwise disjoint and their
\* union is the set of joined groups significant in at least one experiment,
\* the set num_sig counts.
C3_SigcountsPartitionOfSignificant ==
    (last # None /\ last[1].fordrawing # None) =>
        /\ PairwiseDisjoint(last[1].fordrawing[1])
        /\ UnionOf(last[1].fordrawing[1]) = SigRows(last[1].df3)
        /\ Cardinality(UnionOf(last[1].fordrawing[1])) = last[1].num_sig

\* C3 amended: the eight sets are pairwise disjoint and their union is the set
\* of joined groups that are significant with a fold change that is not zero
\* in at least one experiment, a subset of the set num_sig counts.
C3_SigcountsPartitionOfDirected ==
    (last # None /\ last[1].fordrawing # None) =>
        LET df3 == last[1].df3
        IN  /\ PairwiseDisjoint(last[1].fordrawing[1])
            /\ UnionOf(last[1].fordrawing[1]) =
                 {g \in DOMAIN df3 :
                    \/ LE(df3[g].padj1st, Alpha) /\ df3[g].logfc1st \notin {NaN, Num(0)}
                    \/ LE(df3[g].padj, Alpha) /\ df3[g].logfc \notin {NaN, Num(0)}}
            /\ UnionOf(last[1].fordrawing[1]) \subseteq SigRows(df3)

\* a pair with a concordant overlap, a discordant overlap and a significant
\* group of zero fold change that no set holds
C3_Witness ==
    /\ last # None /\ last[1].fordrawing # None
    /\ last[1].fordrawing[1][5] # {}
    /\ last[1].fordrawing[1][8] # {}
    /\ UnionOf(last[1].fordrawing[1]) # SigRows(last[1].df3)

\* equality of two cells of a score matrix that hold fractions
SameCell(x, y) ==
    IF x = None \/ y = None THEN x = y ELSE x[1][1] * y[1][2] = y[1][1] * x[1][2]

\* C10: the Jaccard distance stored for (A,B) equals the one stored for (B,A),
\* with NAs dropped or kept.
C10_JaccardSymmetric ==
    pstatus = "returned" =>
        \A a \in Range(experiments) : \A b \in Range(experiments) :
            a # b => SameCell(jaccard_array[<<Label(a), Label(b)>>],
                              jaccard_array[<<Label(b), Label(a)>>])

\* the experiments of the wide frame that have no data for a row
MissingExperiments(row) == {i \in DOMAIN row : row[i].logfc = NaN}

\* C9: global_comparisons returns exactly the groups of the wide table whose
\* adjusted p-value is <= 0.05 or missing in every experiment, whose present
\* fold changes are all strictly positive or all strictly negative, and which
\* lack data in fewer than (number of experiments - 1) experiments.
C9_GlobalFilter ==
    gstatus = "returned" =>
        orthologs[1] =
            {g \in DOMAIN dfall[1] :
                LET row == dfall[1][g]
                    present == (DOMAIN row) \ MissingExperiments(row)
                IN  /\ \A i \in present : row[i].padj[1] <= Alpha
                    /\ \/ \A i \in present : row[i].logfc[1] > 0
                       \/ \A i \in present : row[i].logfc[1] < 0
                    /\ Cardinality(MissingExperiments(row)) < Len(experiments) - 1}

\* three experiments with NAs kept: a concordant significant group that lacks
\* one experiment is returned, one that lacks two is not
C9_Witness ==
    /\ gstatus = "returned"
    /\ Len(experiments) = 3
    /\ \E g \in orthologs[1] : Cardinality(MissingExperiments(dfall[1][g])) = 1
    /\ \E g \in (DOMAIN dfall[1]) \ orthologs[1] :
          /\ Cardinality(MissingExperiments(dfall[1][g])) = 2
          /\ GlobalSig(dfall[1][g]) /\ GlobalConcordant(dfall[1][g])

\* C11: when a pair's count of groups significant in at least one experiment
\* equals its count of groups concordantly significant in both, the pair's
\* Jaccard cell holds NaN and no division by zero ends pairwise_comparisons:
\* the loop goes on and common_to_all is returned.
C11_UndefinedJaccardNoAbort ==
    (last # None /\ last[1].num_sig = IntersectionAb(last[1].sets)) =>
        /\ pstatus # "ZeroDivisionError"
        /\ jaccard_array[<<Label(last[1].exp1), Label(last[1].exp2)>>] = NaN

\* C12: a 7-column row of a gene of the index never ends translate_to_orthologs,
\* whatever its columns 1, 2, 5 and 6 hold: the row is translated.
C12_MalformedRowNeverFatal ==
    (nrows > 0 /\ KeptRow(lastrow, ortho_dic)) =>
        /\ tstatus # "ValueError"
        /\ ortho_dic[lastrow[1]] \in DOMAIN degdic

\* C13: the joined table of a pair holds exactly the groups of both frames
\* when NAs are dropped and every group of either frame when NAs are kept,
\* with missing values for the experiment that lacks the group.
C13_JoinInnerOrUnion ==
    last # None =>
        LET a == FrameOf(last[1].exp1)
            b == FrameOf(last[1].exp2)
            df3 == last[1].df3
        IN  /\ DOMAIN df3 = IF drop_nas THEN (DOMAIN a) \cap (DOMAIN b)
                            ELSE (DOMAIN a) \cup (DOMAIN b)
            /\ \A g \in DOMAIN df3 :
                  /\ g \notin DOMAIN b => df3[g].logfc = NaN /\ df3[g].padj = NaN
                  /\ g \notin DOMAIN a => df3[g].logfc1st = NaN /\ df3[g].padj1st = NaN

\* the joined groups whose fold changes have the same strict sign
SameSign(df3) ==
    {g \in DOMAIN df3 : \/ GT(df3[g].logfc1st, 0) /\ GT(df3[g].logfc, 0)
                        \/ LT(df3[g].logfc1st, 0) /\ LT(df3[g].logfc, 0)}
\* the joined groups whose fold changes have opposite strict signs
OppositeSign(df3) ==
    {g \in DOMAIN df3 : \/ GT(df3[g].logfc1st, 0) /\ LT(df3[g].logfc, 0)
                        \/ LT(df3[g].logfc1st, 0) /\ GT(df3[g].logfc, 0)}

\* C14: the background concordance frequency of a pair is C / (C + D), with C
\* the joined groups of the same strict sign in both experiments and D those
\* of opposite strict signs, whatever their significance; C is num_concord.
C14_BackgroundFrequency ==
    (last # None /\ last[1].concordance_sets # None) =>
        LET C == Cardinality(SameSign(last[1].df3))
            D == Cardinality(OppositeSign(last[1].df3))
            cc == last[1].concordance_sets[1]
        IN  /\ C = last[1].num_concord
            /\ cc.bkgd_con * (C + D) = C * (cc.bkgd_con + cc.bkgd_dis)

\* C20: the correlation over the genes significant in at least one experiment
\* is computed over exactly the joined groups whose adjusted p-value is at
\* most 0.05 in either experiment, the groups num_sig counts.
C20_OnedegRowsAreSignificantRows ==
    last # None =>
        /\ last[1].onedeg_rows = SigRows(last[1].df3)
        /\ Cardinality(last[1].onedeg_rows) = last[1].num_sig

\* C18: after fetch_orthologs members_of has an entry for every line of the
\* file that has columns, accepted or not, whose value is the line's member
\* genes in file order; a line without columns adds nothing to either mapping
\* and raises no error.
C18_MembersOfReflectsFile ==
    /\ ostatus = "closed" =>
          /\ \A i \in DOMAIN handle :
                handle[i] # <<>> =>
                    /\ handle[i][1] \in DOMAIN ortho_idx
                    /\ ortho_idx[handle[i][1]] = Tail(handle[i])
          /\ DOMAIN ortho_idx = {handle[i][1] : i \in {j \in DOMAIN handle : handle[j] # <<>>}}
    /\ (\A i \in DOMAIN handle : handle[i] = <<>>) =>
          /\ ortho_idx = EmptyDict /\ ortho_dic = EmptyDict
          /\ ostatus \in {"reading", "closed"}

\* C19: after fetch_orthologs every key of group_of is a gene in the member
\* list of some group of members_of.
C19_GroupOfKeysAreMembers ==
    ostatus = "closed" =>
        \A g \in DOMAIN ortho_dic :
            \E o \in DOMAIN ortho_idx : g \in Range(ortho_idx[o])

\* a group carries a domain when the annotation lists the domain for one of
\* its member genes, named with or without the species prefix
Carries(o, pf) ==
    \E i \in DOMAIN ortho_idx[o] :
        \E name \in {Strip5(ortho_idx[o][i]), ortho_idx[o][i]} :
            name \in DOMAIN pfam_acc /\ pf \in Range(pfam_acc[name])

\* C15: with the target a subset of the background, the cells of every tested
\* domain are the target orthologs carrying it, the target orthologs not
\* carrying it, the other background orthologs carrying it and the other
\* background orthologs not carrying it; no cell is negative and the four sum
\* to the number of background orthologs.
C15_ContingencyCells ==
    (estatus \in {"built", "tested", "reported"} /\ common_to_all[1] \subseteq edf3) =>
        \A pf \in DOMAIN fs :
            LET target == common_to_all[1]
                rest == edf3 \ target
                sq == fs[pf]
            IN  /\ sq.TwG = Cardinality({o \in target : Carries(o, pf)})
                /\ sq.TwoG = Cardinality({o \in target : ~Carries(o, pf)})
                /\ sq.NwG = Cardinality({o \in rest : Carries(o, pf)})
                /\ sq.NwoG = Cardinality({o \in rest : ~Carries(o, pf)})
                /\ sq.TwG >= 0 /\ sq.TwoG >= 0 /\ sq.NwG >= 0 /\ sq.NwoG >= 0
                /\ sq.TwG + sq.TwoG + sq.NwG + sq.NwoG = Cardinality(edf3)

\* C16: every tested domain whose q-value is at most 0.05 is reported: as a
\* finding with two or more supporting target genes, and flagged as below the
\* evidentiary bar with exactly one.
C16_SingleSupportStillReported ==
    estatus = "reported" =>
        \A pf \in DOMAIN fs :
            (fs[pf].p[1] \in DOMAIN fdr /\ fdr[fs[pf].p[1]] <= Alpha) =>
                /\ pf \in DOMAIN reported
                /\ fs[pf].TwG >= 2 => reported[pf] = "FDR"
                /\ fs[pf].TwG = 1 => reported[pf] = "below the evidentiary bar"

\* a command line the script must refuse: an experiment file is missing, or
\* fewer than two experiments are named
Fatal ==
    \/ \E i \in DOMAIN args.experiments : args.experiments[i] \notin isfile
    \/ Len(args.experiments) < 2

\* C17: with a missing experiment file or fewer than two experiments the run
\* ends with the error exit, and it does so before the orthology file or any
\* experiment file is read.
C17_FatalBeforeProcessing ==
    (mpc # "idle" /\ Fatal) =>
        /\ opened = <<>>
        /\ mpc \notin {"done", "TypeError", "Exception", "NameError"}

\* C21: enrichment builds one test for each domain that a member gene of a
\* target group carries and none for another domain; a domain that only the
\* second or a later annotated member of a target group carries is tested.
C21_OneTestPerCarriedDomain ==
    estatus \in {"built", "tested", "reported"} =>
        DOMAIN fs = {pf \in PfamIds : \E o \in common_to_all[1] : Carries(o, pf)}

\* C22: with no ignorable species given (exclude None) and collapse_duplicates
\* false the index is built without error and is the index that an empty
\* ignorable set gives for the same file.
C22_NoneExcludeIsEmptySet ==
    (ostatus # "idle" /\ exclude = None /\ ~duplicates) =>
        /\ ostatus # "TypeError"
        /\ ostatus = "closed" =>
              LET r == fetch_orthologs(handle, mustcontain, Some({}), FALSE)
              IN  /\ r.status = "closed"
                  /\ r.ortho_dic = ortho_dic
                  /\ r.ortho_idx = ortho_idx

\* C23: for the same experiments, index and calibration group, with NAs
\* dropped, no filter list and duplicate management off, the orthologs that
\* global_comparisons returns are the common_to_all of pairwise_comparisons.
C23_GlobalEqualsPairwise ==
    (gstatus = "returned" /\ pstatus = "returned") =>
        orthologs[1] = common_to_all[1]

\* three experiments calibrated on G1, both modes returned: one group is
\* common to all and another group of the wide table is not
C23_Witness ==
    /\ gstatus = "returned" /\ pstatus = "returned"
    /\ Len(experiments) = 3
    /\ calibrate = Some("G1")
    /\ common_to_all[1] # {}
    /\ common_to_all[1] # DOMAIN dfall[1]
    /\ \E e \in Range(experiments) : files[e]["G1"].logfc < 0

\* the passes of the loop made so far that reached the writes of lines
\* 625-674, and the (column label, row label) cell a pass writes
Passes ==
    {k \in 0..(pairno - 1) :
        Exp1At(k) # Exp2At(k) /\ ~(k = pairno - 1 /\ pstatus = "KeyError")}
CellOf(k) == <<Label(Exp1At(k)), Label(Exp2At(k))>>

\* C24: every ordered pair of different files writes its own cell of the score
\* matrices: no two pairs write the same cell, no diagonal cell is written,
\* and after the run every off-diagonal cell has been written exactly once.
C24_OneCellPerPair ==
    pstatus # "idle" =>
        /\ \A j \in Passes : \A k \in Passes : j # k => CellOf(j) # CellOf(k)
        /\ \A k \in Passes : CellOf(k)[1] # CellOf(k)[2]
        /\ \A e \in Range(experiments) : jaccard_array[<<Label(e), Label(e)>>] = None
        /\ pstatus = "returned" =>
              \A cell \in DOMAIN jaccard_array :
                  cell[1] # cell[2] =>
                      /\ jaccard_array[cell] # None
                      /\ Cardinality({k \in Passes : CellOf(k) = cell}) = 1

====
